---- MODULE Spec2Model ----
(***************************************************************************)
(* Model of the spaced-repetition store of smart-quiz-app.                 *)
(*                                                                         *)
(* SpacedRepetitionManager (src/SpacedRepetition.py) keeps a dict          *)
(* question_data, keyed by "<username>:<question_id>", that it loads from  *)
(* one JSON file when it is constructed and writes back whole at the end   *)
(* of every update_question_performance.  QuizLoader, Quiz and             *)
(* ErrorAnalyzer each construct their own manager over the same file.      *)
(* The model also covers the quiz selections of QuizLoader, the error      *)
(* summary of ErrorAnalyzer, and the question loop and timer thread of     *)
(* Quiz.                                                                   *)
(*                                                                         *)
(* Numbers: ease_factor is kept in hundredths (2.5 is 250), so the SM-2    *)
(* deltas 0.10, 0, -0.14, -0.32, -0.54, -0.80 are the integers 10, 0, -14, *)
(* -32, -54, -80; avg_response_time is an exact fraction; response times   *)
(* are whole seconds.  Time is counted in ticks, TicksPerDay to a day.     *)
(***************************************************************************)
EXTENDS Integers, Sequences, FiniteSets, TLC

VARIABLES
    disk,      \* the JSON file: [state: absent | ok | corrupt, data: dict]
    mem,       \* mem[m] = question_data of manager instance m
    now,       \* the wall clock, in ticks
    live,      \* the manager instances constructed so far
    blind,     \* the instances whose load_data met a file that does not parse
    called,    \* the last call: method, instance, arguments, and how its
               \* save_data went
    raised,    \* the exception the last call raised to its caller
    latest,    \* latest[key] = record left by the last update of key, the
               \* time of that update, and
               \* the instances that have updated key
    returned,  \* the value the last call returned (<<>> for None)
    updates,   \* number of update_question_performance calls so far
    faults,    \* number of failed saves so far
    answered,  \* answered[key] = what the callers reported for key so far:
               \* the number of answers, of incorrect ones, the sum of the
               \* response times, and the number of correct answers since
               \* the last incorrect one
    quiz       \* the Quiz object, the place its start_quiz has reached, and
               \* its timer thread

vars == <<disk, mem, live, blind, now, called, raised, returned, latest, updates,
         faults, answered, quiz>>

----------------------------------------------------------------------------
(* Bounds of the exploration. *)

MaxNow == 2
MaxUpdates == 3
MaxSharedUpdates == 2
MaxFaults == 1
MaxDrillUpdates == 4
MaxReviewUpdates == 2
MaxSelectUpdates == 1
MaxErrorUpdates == 3
MaxRankUpdates == 2
MaxDueUpdates == 3
MaxKeyUpdates == 2
LateDays == 4

(* Ticks in one day: datetime has sub-day resolution. *)
TicksPerDay == 2

Managers == {"m1", "m2"}
Users == {<<"a">>}
Items == {<<"q">>, <<"r">>}
ResponseTimes == {4, 8, 12}
MeasuredTimes == {-1, 4}
DrillTimes == {4, 6, 20}
SaveOutcomes == {"saved", "open_failed", "write_failed"}

----------------------------------------------------------------------------
(* Helpers for exact arithmetic. *)

Abs(x) == IF x < 0 THEN -x ELSE x

Max(a, b) == IF a >= b THEN a ELSE b

Min(a, b) == IF a <= b THEN a ELSE b

RECURSIVE GCD(_, _)
GCD(a, b) == IF b = 0 THEN a ELSE GCD(b, a % b)

(* The fraction n/d (d > 0) in lowest terms. *)
Rat(n, d) == LET g == GCD(Abs(n), d) IN [num |-> n \div g, den |-> d \div g]

RatLeq(x, y) == x.num * y.den <= y.num * x.den

(* round(n / d) to a whole number, a tie going to the even neighbour. *)
round(n, d) ==
    LET lo == n \div d
        twice == 2 * (n - lo * d)
    IN  IF twice < d THEN lo
        ELSE IF twice > d THEN lo + 1
        ELSE IF lo % 2 = 0 THEN lo ELSE lo + 1

RECURSIVE Sum(_, _)
Sum(f, S) ==
    IF S = {} THEN 0
    ELSE LET x == CHOOSE y \in S : TRUE IN f[x] + Sum(f, S \ {x})

----------------------------------------------------------------------------
(* Timestamps: datetime.isoformat() writes the date and the time of day,   *)
(* datetime.fromisoformat() reads them back.                               *)

isoformat(t) == [date |-> t \div TicksPerDay, time |-> t % TicksPerDay]

fromisoformat(s) == s.date * TicksPerDay + s.time

timedelta(days) == days * TicksPerDay

----------------------------------------------------------------------------
(* The store. *)

EmptyDict == [k \in {} |-> 0]

user_key(username, question_id) == username \o <<":">> \o question_id

NewRecord(t) ==
    [ ease_factor        |-> 250,
      repetition         |-> 0,
      interval           |-> 1,
      next_review        |-> isoformat(t),
      total_attempts     |-> 0,
      correct_attempts   |-> 0,
      last_response_time |-> 0,
      avg_response_time  |-> Rat(0, 1),
      created_date       |-> isoformat(t) ]

(* load_data: the parsed file; {} when there is no file and also when the  *)
(* file does not parse (JSONDecodeError is caught).                        *)
load_data(d) == IF d.state = "ok" THEN d.data ELSE EmptyDict

(* save_data: open(..., 'w') truncates the file, json.dump then writes it. *)
(* Every exception is caught and printed.                                  *)
save_data(d, question_data, outcome) ==
    CASE outcome = "saved"        -> [state |-> "ok", data |-> question_data]
      [] outcome = "open_failed"  -> d
      [] outcome = "write_failed" -> [state |-> "corrupt", data |-> EmptyDict]

(* Mutant: the record is written whether or not the key has one. *)
initialize_question_Overwrite(question_data, question_id, username, t) ==
    (user_key(username, question_id) :> NewRecord(t)) @@ question_data

initialize_question(question_data, question_id, username, t) ==
    LET key == user_key(username, question_id) IN
    IF key \notin DOMAIN question_data
    THEN question_data @@ (key :> NewRecord(t))
    ELSE question_data

----------------------------------------------------------------------------
(* The modified SM-2 step of update_question_performance on one record.    *)

(* Mutant: the success rate of a lapse is taken before the lapse is counted. *)
Quality_RateBefore(was_correct, response_time, correct_attempts, total_attempts) ==
    IF was_correct
    THEN IF response_time <= 5 THEN 5
         ELSE IF response_time <= 10 THEN 4
         ELSE 3
    ELSE IF 10 * correct_attempts > 7 * (total_attempts - 1) THEN 2
         ELSE IF 10 * correct_attempts > 3 * (total_attempts - 1) THEN 1
         ELSE 0

Quality(was_correct, response_time, correct_attempts, total_attempts) ==
    IF was_correct
    THEN IF response_time <= 5 THEN 5
         ELSE IF response_time <= 10 THEN 4
         ELSE 3
    ELSE IF 10 * correct_attempts > 7 * total_attempts THEN 2
         ELSE IF 10 * correct_attempts > 3 * total_attempts THEN 1
         ELSE 0

(* 0.1 - (5 - quality) * (0.08 + (5 - quality) * 0.02), in hundredths. *)
EaseDelta(quality) == 10 - (5 - quality) * (8 + (5 - quality) * 2)

MinEase == 130

(* Mutant: no lower limit on the ease factor. *)
ClampEase_NoFloor(new_ease) == new_ease

ClampEase(new_ease) == Max(MinEase, new_ease)

(* Mutant: from the third correct answer on, the interval is the ease      *)
(* factor alone, rounded down.                                              *)
NextInterval_EaseOnly(data, was_correct) ==
    IF was_correct
    THEN IF data.repetition = 0 THEN 1
         ELSE IF data.repetition = 1 THEN 6
         ELSE data.ease_factor \div 100
    ELSE 1

NextInterval(data, was_correct) ==
    IF was_correct
    THEN IF data.repetition = 0 THEN 1
         ELSE IF data.repetition = 1 THEN 6
         ELSE (data.interval * data.ease_factor) \div 100
    ELSE 1

(* Mutant: a lapse leaves the streak as it was. *)
NextRepetition_KeepStreak(data, was_correct) ==
    IF was_correct THEN data.repetition + 1 ELSE data.repetition

NextRepetition(data, was_correct) ==
    IF was_correct THEN data.repetition + 1 ELSE 0

(* Mutant: the new time is averaged with the old mean, one to one. *)
RunningMean_Halved(avg, total, response_time) ==
    Rat(avg.num + response_time * avg.den, avg.den * (IF total = 1 THEN 1 ELSE 2))

(* total_time = avg * (total - 1) + response_time; avg' = total_time / total. *)
RunningMean(avg, total, response_time) ==
    Rat(avg.num * (total - 1) + response_time * avg.den, avg.den * total)

(* Mutant: the next review is set to the time of the answer. *)
UpdateRecord_DueAtOnce(data, was_correct, response_time, t) ==
    LET total    == data.total_attempts + 1
        correct  == IF was_correct THEN data.correct_attempts + 1
                    ELSE data.correct_attempts
        avg      == RunningMean(data.avg_response_time, total, response_time)
        interval == NextInterval(data, was_correct)
        quality  == Quality(was_correct, response_time, correct, total)
        ease     == ClampEase(data.ease_factor + EaseDelta(quality))
    IN  [ ease_factor        |-> ease,
          repetition         |-> NextRepetition(data, was_correct),
          interval           |-> interval,
          next_review        |-> isoformat(t),
          total_attempts     |-> total,
          correct_attempts   |-> correct,
          last_response_time |-> response_time,
          avg_response_time  |-> avg,
          created_date       |-> data.created_date ]

(* Mutant: the ease factor is updated before the interval is computed. *)
UpdateRecord_EaseFirst(data, was_correct, response_time, t) ==
    LET total    == data.total_attempts + 1
        correct  == IF was_correct THEN data.correct_attempts + 1
                    ELSE data.correct_attempts
        avg      == RunningMean(data.avg_response_time, total, response_time)
        quality  == Quality(was_correct, response_time, correct, total)
        ease     == ClampEase(data.ease_factor + EaseDelta(quality))
        interval == NextInterval([data EXCEPT !.ease_factor = ease], was_correct)
    IN  [ ease_factor        |-> ease,
          repetition         |-> NextRepetition(data, was_correct),
          interval           |-> interval,
          next_review        |-> isoformat(t + timedelta(interval)),
          total_attempts     |-> total,
          correct_attempts   |-> correct,
          last_response_time |-> response_time,
          avg_response_time  |-> avg,
          created_date       |-> data.created_date ]

UpdateRecord(data, was_correct, response_time, t) ==
    LET total    == data.total_attempts + 1
        correct  == IF was_correct THEN data.correct_attempts + 1
                    ELSE data.correct_attempts
        avg      == RunningMean(data.avg_response_time, total, response_time)
        interval == NextInterval(data, was_correct)
        quality  == Quality(was_correct, response_time, correct, total)
        ease     == ClampEase(data.ease_factor + EaseDelta(quality))
    IN  [ ease_factor        |-> ease,
          repetition         |-> NextRepetition(data, was_correct),
          interval           |-> interval,
          next_review        |-> isoformat(t + timedelta(interval)),
          total_attempts     |-> total,
          correct_attempts   |-> correct,
          last_response_time |-> response_time,
          avg_response_time  |-> avg,
          created_date       |-> data.created_date ]

update_question_performance(question_data, question_id, username, was_correct, response_time, t) ==
    LET key  == user_key(username, question_id)
        qd   == initialize_question(question_data, question_id, username, t)
    IN  [qd EXCEPT ![key] = UpdateRecord(qd[key], was_correct, response_time, t)]

----------------------------------------------------------------------------
(* Reading the schedule. *)

(* Mutant: an item is not yet due at the instant of its next_review. *)
IsDue_Strict(question_data, question_id, username, t) ==
    LET key == user_key(username, question_id) IN
    \/ key \notin DOMAIN question_data
    \/ t > fromisoformat(question_data[key].next_review)

IsDue(question_data, question_id, username, t) ==
    LET key == user_key(username, question_id) IN
    \/ key \notin DOMAIN question_data
    \/ t >= fromisoformat(question_data[key].next_review)

get_questions_due_for_review(question_data, username, all_question_ids, t) ==
    SelectSeq(all_question_ids,
              LAMBDA q : IsDue(question_data, q, username, t))

(* get_question_priority, as an exact fraction: 100 for an item without a  *)
(* record; otherwise the four factors, where days_overdue is the whole     *)
(* number of days of now - next_review, rounded down, and may be negative. *)
get_question_priority(question_data, question_id, username, t) ==
    LET key == user_key(username, question_id) IN
    IF key \notin DOMAIN question_data THEN Rat(100, 1)
    ELSE LET data           == question_data[key]
             days_overdue   == (t - fromisoformat(data.next_review))
                                 \div TicksPerDay
             overdue_factor == Max(0, days_overdue) * 10
             attempts       == Max(1, data.total_attempts)
             time_factor    == Min(days_overdue, 30)
         IN  \* overdue_factor + (1 - success_rate) * 50
             \*   + (3.0 - ease_factor) * 20 + time_factor
             Rat((overdue_factor + time_factor) * 100 * attempts
                   + (attempts - data.correct_attempts) * 5000
                   + (300 - data.ease_factor) * 20 * attempts,
                 100 * attempts)

(* key.startswith(f"{username}:") *)
startswith(key, username) ==
    /\ Len(key) >= Len(username) + 1
    /\ SubSeq(key, 1, Len(username) + 1) = username \o <<":">>

(* key.split(':', 1)[1] *)
split1(key) ==
    LET colon == CHOOSE n \in 1..Len(key) :
                    /\ key[n] = ":"
                    /\ \A j \in 1..(n - 1) : key[j] # ":"
    IN  SubSeq(key, colon + 1, Len(key))

get_user_statistics(question_data, username) ==
    LET user_questions == { k \in DOMAIN question_data : startswith(k, username) }
        total_questions == Cardinality(user_questions)
        count(P(_)) == Cardinality({ k \in user_questions : P(question_data[k]) })
        ease == [k \in user_questions |-> question_data[k].ease_factor]
        attempts == [k \in user_questions |-> question_data[k].total_attempts]
    IN  IF user_questions = {}
        THEN [ total_questions     |-> 0,
               questions_mastered  |-> 0,
               questions_learning  |-> 0,
               questions_difficult |-> 0,
               average_ease        |-> 0,
               total_reviews       |-> 0 ]
        ELSE [ total_questions     |-> total_questions,
               questions_mastered  |->
                   count(LAMBDA d : d.repetition >= 3 /\ d.ease_factor >= 250),
               questions_learning  |->
                   count(LAMBDA d : 1 <= d.repetition /\ d.repetition < 3),
               questions_difficult |-> count(LAMBDA d : d.ease_factor < 200),
               average_ease        |->
                   round(Sum(ease, user_questions), total_questions),
               total_reviews       |-> Sum(attempts, user_questions) ]

(* get_review_schedule: one bucket for each of the dates of now + i days,   *)
(* i in range(days); a record of the user goes to the bucket of the date of *)
(* its next_review when now <= next_review <= now + days and that date has  *)
(* a bucket.  A bucket is modelled by the set of the ids it lists.          *)
get_review_schedule(question_data, username, days, t) ==
    LET dates == { isoformat(t + timedelta(i)).date : i \in 0..(days - 1) }
        listed(date) ==
            { k \in DOMAIN question_data :
                /\ startswith(k, username)
                /\ t <= fromisoformat(question_data[k].next_review)
                /\ fromisoformat(question_data[k].next_review)
                      <= t + timedelta(days)
                /\ question_data[k].next_review.date = date }
    IN  [date \in dates |-> { split1(k) : k \in listed(date) }]

----------------------------------------------------------------------------
(* The quiz selections of QuizLoader.  all_questions is modelled by the     *)
(* list of the ids of the loaded questions, and a Question object by its    *)
(* position in that list: two questions of one file with the same text are  *)
(* two objects with one id.  A selection yields the set of the lists that   *)
(* random.sample and random.shuffle can produce.                            *)

Range(seq) == { seq[j] : j \in 1..Len(seq) }

(* The code point of a character of a user name or an id. *)
ord(ch) ==
    CASE ch = ":" -> 58
      [] ch = "a" -> 97
      [] ch = "b" -> 98
      [] ch = "q" -> 113
      [] ch = "r" -> 114
      [] ch = "s" -> 115

(* str < str *)
RECURSIVE StrLess(_, _)
StrLess(x, y) ==
    IF y = <<>> THEN FALSE
    ELSE IF x = <<>> THEN TRUE
    ELSE IF ord(Head(x)) # ord(Head(y)) THEN ord(Head(x)) < ord(Head(y))
    ELSE StrLess(Tail(x), Tail(y))

(* (score, id) < (score, id), as tuples compare. *)
TupleLess(x, y) ==
    \/ ~RatLeq(y.score, x.score)
    \/ x.score = y.score /\ StrLess(x.id, y.id)

(* list.sort(reverse=True) of (score, id) tuples. *)
RECURSIVE sort_reverse(_)
sort_reverse(entries) ==
    IF entries = <<>> THEN <<>>
    ELSE LET top == CHOOSE j \in 1..Len(entries) :
                       /\ \A n \in 1..Len(entries) :
                             ~TupleLess(entries[j], entries[n])
                       /\ \A n \in 1..(j - 1) : entries[n] # entries[j]
         IN  <<entries[top]>>
               \o sort_reverse(SubSeq(entries, 1, top - 1)
                                \o SubSeq(entries, top + 1, Len(entries)))

(* seq[:n], n of either sign. *)
Slice(seq, n) ==
    IF n >= 0 THEN SubSeq(seq, 1, Min(n, Len(seq)))
    ELSE SubSeq(seq, 1, Max(0, Len(seq) + n))

(* {q.get_id(): q for q in all_questions}: the last question of each id. *)
question_map(pool) ==
    [id \in Range(pool) |->
        CHOOSE j \in 1..Len(pool) :
            pool[j] = id /\ \A n \in (j + 1)..Len(pool) : pool[n] # id]

(* The members of a set of positions, in ascending order. *)
RECURSIVE Ascending(_)
Ascending(S) ==
    IF S = {} THEN <<>>
    ELSE LET least == CHOOSE x \in S : \A y \in S : x <= y
         IN  <<least>> \o Ascending(S \ {least})

(* The ids of a list of questions. *)
Ids(pool, questions) == [j \in 1..Len(questions) |-> pool[questions[j]]]

(* random.shuffle: every arrangement of the same ids. *)
shuffle(ids) ==
    { s \in [1..Len(ids) -> Range(ids)] :
        \A x \in Range(ids) :
            Cardinality({ j \in 1..Len(ids) : s[j] = x })
              = Cardinality({ j \in 1..Len(ids) : ids[j] = x }) }

(* The loop of initialize_question over all_questions. *)
RECURSIVE initialize_all(_, _, _, _)
initialize_all(question_data, pool, username, t) ==
    IF pool = <<>> THEN question_data
    ELSE initialize_all(
             initialize_question(question_data, Head(pool), username, t),
             Tail(pool), username, t)

(* Mutant: the due questions are cut to count in the order of the file. *)
due_selection_Unranked(question_data, username, pool, count, t) ==
    LET due == get_questions_due_for_review(question_data, username, pool, t)
        first == Slice(due, count)
    IN  [j \in 1..Len(first) |-> question_map(pool)[first[j]]]

(* The due questions ranked by (priority, id), highest first, cut to count. *)
due_selection(question_data, username, pool, count, t) ==
    LET due == get_questions_due_for_review(question_data, username, pool, t)
        with_priority ==
            [j \in 1..Len(due) |->
                [score |-> get_question_priority(question_data, due[j],
                                                 username, t),
                 id    |-> due[j]]]
        first == Slice(sort_reverse(with_priority), count)
    IN  [j \in 1..Len(first) |-> question_map(pool)[first[j].id]]

(* random.sample from the questions that are not selected, as objects,     *)
(* when fewer than max_questions are selected.                             *)
random_fill(pool, selected, max_questions) ==
    IF Len(selected) < max_questions
    THEN LET remaining == (1..Len(pool)) \ Range(selected)
             needed    == Min(max_questions - Len(selected),
                              Cardinality(remaining))
         IN  { selected \o Ascending(S) :
                  S \in { T \in SUBSET remaining : Cardinality(T) = needed } }
    ELSE {selected}

get_spaced_repetition_quiz(question_data, username, pool, max_questions, t) ==
    IF pool = <<>> THEN {<<>>}
    ELSE LET stored   == initialize_all(question_data, pool, username, t)
             selected == due_selection(stored, username, pool, max_questions, t)
         IN  UNION { shuffle(Ids(pool, chosen)) :
                        chosen \in random_fill(pool, selected, max_questions) }

(* (1 - success_rate) * 100 + (3.0 - ease_factor) * 20 *)
difficulty_score(data) ==
    LET attempts == Max(1, data.total_attempts)
    IN  Rat((attempts - data.correct_attempts) * 10000
              + (300 - data.ease_factor) * 20 * attempts,
            100 * attempts)

(* Mutant: the attempted questions are cut to max_questions in the order of *)
(* the file.                                                                *)
difficult_selection_Unranked(question_data, username, pool, max_questions) ==
    LET attempted ==
            SelectSeq([j \in 1..Len(pool) |-> pool[j]],
                      LAMBDA id :
                          /\ user_key(username, id) \in DOMAIN question_data
                          /\ question_data[user_key(username, id)]
                                .total_attempts > 0)
        first == Slice(attempted, max_questions)
        selected == [j \in 1..Len(first) |-> question_map(pool)[first[j]]]
    IN  random_fill(pool, selected, max_questions)

(* The questions get_difficult_questions_quiz selects, before its shuffle. *)
difficult_selection(question_data, username, pool, max_questions) ==
    LET attempted ==
            SelectSeq([j \in 1..Len(pool) |-> pool[j]],
                      LAMBDA id :
                          /\ user_key(username, id) \in DOMAIN question_data
                          /\ question_data[user_key(username, id)]
                                .total_attempts > 0)
        scored ==
            [j \in 1..Len(attempted) |->
                [score |-> difficulty_score(
                               question_data[user_key(username, attempted[j])]),
                 id    |-> attempted[j]]]
        first == Slice(sort_reverse(scored), max_questions)
        selected == [j \in 1..Len(first) |-> question_map(pool)[first[j].id]]
    IN  random_fill(pool, selected, max_questions)

get_difficult_questions_quiz(question_data, username, pool, max_questions) ==
    IF pool = <<>> THEN {<<>>}
    ELSE UNION { shuffle(Ids(pool, chosen)) :
                    chosen \in difficult_selection(question_data, username,
                                                   pool, max_questions) }

(* int(max_questions * 0.6): towards zero. *)
sr_count(max_questions) ==
    IF max_questions >= 0 THEN (6 * max_questions) \div 10
    ELSE -((6 * (-max_questions)) \div 10)

(* The questions of a list, one for each id, the first of each id kept. *)
unique_questions(pool, questions) ==
    SelectSeq([j \in 1..Len(questions) |->
                  IF \E n \in 1..(j - 1) : pool[questions[n]] = pool[questions[j]]
                  THEN 0 ELSE questions[j]],
              LAMBDA q : q # 0)

(* The lists of questions get_mixed_review_quiz can hold before its shuffle *)
(* and its cut to max_questions.                                            *)
mixed_selection(question_data, username, pool, max_questions, t) ==
    LET due_count    == sr_count(max_questions)
        sr_questions == due_selection(question_data, username, pool,
                                      due_count, t)
        filled(difficult) ==
            LET unique == unique_questions(pool, sr_questions \o difficult)
                seen   == Range(Ids(pool, unique))
                remaining == { j \in 1..Len(pool) : pool[j] \notin seen }
                needed == Min(max_questions - Len(unique),
                              Cardinality(remaining))
            IN  IF Len(unique) < max_questions
                THEN { unique \o Ascending(S) :
                         S \in { T \in SUBSET remaining :
                                    Cardinality(T) = needed } }
                ELSE {unique}
    IN  UNION { filled(difficult) :
                  difficult \in difficult_selection(question_data, username,
                                                    pool,
                                                    max_questions - due_count) }

get_mixed_review_quiz(question_data, username, pool, max_questions, t) ==
    IF pool = <<>> THEN {<<>>}
    ELSE UNION { { Slice(ids, max_questions) :
                     ids \in shuffle(Ids(pool, chosen)) } :
                 chosen \in mixed_selection(question_data, username, pool,
                                            max_questions, t) }

----------------------------------------------------------------------------
(* ErrorAnalyzer.get_user_error_summary.  Rounded numbers are kept in the   *)
(* unit of their last digit: round(x, 1) in tenths, round(x, 2) in          *)
(* hundredths.  A dict is modelled without its insertion order, so a list   *)
(* built from one and sorted by a key is any arrangement that the key       *)
(* allows: the choice among equal keys is left open.                        *)

RatAdd(x, y) == Rat(x.num * y.den + y.num * x.den, x.den * y.den)

RECURSIVE RatSum(_, _)
RatSum(f, S) ==
    IF S = {} THEN Rat(0, 1)
    ELSE LET x == CHOOSE y \in S : TRUE IN RatAdd(f[x], RatSum(f, S \ {x}))

(* list.sort(key=..., reverse=True) of the entries E, key[e] being the key  *)
(* of the entry e.                                                          *)
sort_key_reverse(E, key) ==
    { s \in [1..Cardinality(E) -> E] :
        /\ \A x \in E : \E j \in 1..Cardinality(E) : s[j] = x
        /\ \A j \in 1..(Cardinality(E) - 1) : key[s[j]] >= key[s[j + 1]] }

(* The user_data of the analyzer: question_id -> record, for the keys that  *)
(* start with the user name and a colon.                                    *)
user_data(question_data, username) ==
    LET keys == { k \in DOMAIN question_data : startswith(k, username) }
    IN  [id \in { split1(k) : k \in keys } |->
            question_data[CHOOSE k \in keys : split1(k) = id]]

(* The entries of difficult_questions, before they are sorted. *)
difficult_questions(data) ==
    { [ question_id      |-> id,
        success_rate     |-> round(data[id].correct_attempts * 1000,
                                   data[id].total_attempts),
        attempts         |-> data[id].total_attempts,
        difficulty_score |-> round(difficulty_score(data[id]).num * 10,
                                   difficulty_score(data[id]).den),
        ease_factor      |-> data[id].ease_factor ] :
      id \in { q \in DOMAIN data :
                 /\ data[q].total_attempts >= 2
                 /\ 10 * data[q].correct_attempts
                      < 7 * data[q].total_attempts } }

_analyze_error_patterns(data) ==
    LET rate_ge(d, n, of) ==
            of * d.correct_attempts >= n * Max(1, d.total_attempts)
        mastered == { q \in DOMAIN data :
                        rate_ge(data[q], 8, 10) /\ data[q].repetition >= 3 }
        struggling == { q \in DOMAIN data \ mastered :
                          ~rate_ge(data[q], 5, 10) }
        timed == { q \in DOMAIN data : data[q].avg_response_time.num > 0 }
        avg == [q \in timed |-> data[q].avg_response_time]
        total_response_time == RatSum(avg, timed)
        slow == { [ question_id |-> q,
                    avg_time    |-> round(avg[q].num * 10, avg[q].den),
                    attempts    |-> data[q].total_attempts ] :
                  q \in { x \in timed : avg[x].num > 20 * avg[x].den } }
    IN  { [ questions_mastered   |-> Cardinality(mastered),
            questions_struggling |-> Cardinality(struggling),
            questions_learning   |->
                Cardinality(DOMAIN data \ (mastered \cup struggling)),
            avg_response_time    |->
                round(total_response_time.num * 10,
                      total_response_time.den * Max(1, Cardinality(timed))),
            slow_questions       |-> Slice(sorted, 5) ] :
          sorted \in sort_key_reverse(slow, [e \in slow |-> e.avg_time]) }

(* The suggestions, each named by its first words. *)
_generate_improvement_suggestions(total_errors, total_attempts, difficult, data) ==
    LET rate_gt(n) == total_attempts > 0
                        /\ total_errors * 100 > n * total_attempts
        timed == { q \in DOMAIN data : data[q].avg_response_time.num > 0 }
        avg == [q \in timed |-> data[q].avg_response_time]
        total == RatSum(avg, timed)
        very_easy == { q \in DOMAIN data :
                         data[q].ease_factor > 280 /\ data[q].repetition >= 2 }
        suggestions ==
            << IF rate_gt(50) THEN "error rate is quite high"
               ELSE IF rate_gt(30) THEN "focus on your weak areas"
               ELSE IF rate_gt(15) THEN "doing well"
               ELSE "excellent performance" >>
            \o (IF Cardinality(difficult) > 5
                THEN <<"challenging questions">> ELSE <<>>)
            \o (IF timed = {} THEN <<>>
                ELSE IF total.num > 15 * total.den * Cardinality(timed)
                     THEN <<"improve your response time">>
                ELSE IF total.num < 5 * total.den * Cardinality(timed)
                     THEN <<"great response times">>
                ELSE <<>>)
            \o (IF 10 * Cardinality(very_easy) > 7 * Cardinality(DOMAIN data)
                THEN <<"mastered most questions">> ELSE <<>>)
    IN  Slice(suggestions, 4)

get_user_error_summary(question_data, username) ==
    LET data == user_data(question_data, username)
        attempts == [q \in DOMAIN data |-> data[q].total_attempts]
        errors == [q \in DOMAIN data |->
                      data[q].total_attempts - data[q].correct_attempts]
        total_attempts == Sum(attempts, DOMAIN data)
        total_errors == Sum(errors, DOMAIN data)
        difficult == difficult_questions(data)
    IN  IF DOMAIN data = {}
        THEN { [ total_questions_attempted |-> 0,
                 total_errors              |-> 0,
                 error_rate                |-> 0,
                 most_difficult_questions  |-> <<>>,
                 topics_with_most_errors   |-> <<>>,
                 improvement_suggestions   |-> <<>> ] }
        ELSE { [ total_questions_attempted |-> Cardinality(DOMAIN data),
                 total_attempts            |-> total_attempts,
                 total_errors              |-> total_errors,
                 error_rate                |->
                     IF total_attempts > 0
                     THEN round(total_errors * 1000, total_attempts) ELSE 0,
                 most_difficult_questions  |-> Slice(sorted, 10),
                 error_patterns            |-> patterns,
                 improvement_suggestions   |->
                     _generate_improvement_suggestions(
                         total_errors, total_attempts, difficult, data) ] :
               sorted \in sort_key_reverse(
                             difficult,
                             [e \in difficult |-> e.difficulty_score]),
               patterns \in _analyze_error_patterns(data) }

----------------------------------------------------------------------------
(* The state machine.  "m1" is the instance the QuizLoader of main() holds *)
(* from the start of the process; the others are constructed later, by a   *)
(* Quiz, an ErrorAnalyzer or another process.                              *)

Call(method, self, args, save) ==
    [method |-> method, self |-> self, args |-> args, save |-> save]

(* What the callers of update_question_performance have reported for a key. *)
Reported(key) ==
    IF key \in DOMAIN answered THEN answered[key]
    ELSE [n |-> 0, wrong |-> 0, time |-> 0, streak |-> 0]

Report(sofar, was_correct, response_time) ==
    [ n     |-> sofar.n + 1,
      wrong |-> IF was_correct THEN sofar.wrong ELSE sofar.wrong + 1,
      time  |-> sofar.time + response_time,
      streak |-> IF was_correct THEN sofar.streak + 1 ELSE 0 ]

Init ==
    /\ disk = [state |-> "absent", data |-> EmptyDict]
    /\ mem = [m \in Managers |-> EmptyDict]
    /\ live = {"m1"}
    /\ blind = {}
    /\ now = 0
    /\ called = Call("none", "none", <<>>, "none")
    /\ raised = "none"
    /\ latest = EmptyDict
    /\ returned = <<>>
    /\ updates = 0
    /\ faults = 0
    /\ answered = EmptyDict
    /\ quiz = [pc |-> "none"]

(* SpacedRepetitionManager.__init__: question_data = load_data().  It      *)
(* returns normally whatever the file holds.                               *)
ManagerInit(m) ==
    /\ mem' = [mem EXCEPT ![m] = load_data(disk)]
    /\ live' = live \cup {m}
    /\ blind' = IF disk.state = "corrupt" THEN blind \cup {m} ELSE blind \ {m}
    /\ called' = Call("__init__", m, <<>>, "none")
    /\ raised' = "none"
    /\ returned' = <<>>
    /\ UNCHANGED <<disk, now, latest, updates, faults, answered>>

(* A manager constructed by a QuizLoader, an ErrorAnalyzer or another       *)
(* process.                                                                 *)
Construct(m) ==
    /\ ManagerInit(m)
    /\ UNCHANGED quiz

Initialize(m, u, i) ==
    /\ m \in live
    /\ mem' = [mem EXCEPT ![m] = initialize_question(mem[m], i, u, now)]
    /\ called' = Call("initialize_question", m, <<i, u>>, "none")
    /\ raised' = "none"
    /\ returned' = <<>>
    /\ UNCHANGED <<disk, live, blind, now, latest, updates, faults, answered, quiz>>

(* update_question_performance: no argument is checked, the record is      *)
(* changed in memory, save_data swallows a failed write, and the call      *)
(* returns None.                                                           *)
UpdatePerformance(m, u, i, c, rt, outcome) ==
    /\ m \in live
    /\ outcome # "saved" => faults < MaxFaults
    /\ LET key == user_key(u, i)
           qd  == update_question_performance(mem[m], i, u, c, rt, now)
           by  == IF key \in DOMAIN latest THEN latest[key].writers ELSE {}
           new == [record |-> qd[key], writers |-> by \cup {m}, at |-> now]
       IN  /\ mem' = [mem EXCEPT ![m] = qd]
           /\ disk' = save_data(disk, qd, outcome)
           /\ latest' = IF key \in DOMAIN latest
                        THEN [latest EXCEPT ![key] = new]
                        ELSE latest @@ (key :> new)
           /\ answered' = (key :> Report(Reported(key), c, rt)) @@ answered
    /\ called' = Call("update_question_performance", m, <<i, u, c, rt>>,
                      outcome)
    /\ raised' = "none"
    /\ returned' = <<>>
    /\ updates' = updates + 1
    /\ faults' = IF outcome = "saved" THEN faults ELSE faults + 1
    /\ UNCHANGED <<live, blind, now>>

(* A call of update_question_performance by a caller other than a quiz in  *)
(* progress.                                                                *)
Update(m, u, i, c, rt, outcome) ==
    /\ UpdatePerformance(m, u, i, c, rt, outcome)
    /\ UNCHANGED quiz

GetDue(m, u, pool) ==
    /\ m \in live
    /\ returned' = get_questions_due_for_review(mem[m], u, pool, now)
    /\ called' = Call("get_questions_due_for_review", m, <<u, pool>>, "none")
    /\ raised' = "none"
    /\ UNCHANGED <<disk, mem, live, blind, now, latest, updates, faults,
                   answered, quiz>>

GetPriority(m, u, i) ==
    /\ m \in live
    /\ returned' = get_question_priority(mem[m], i, u, now)
    /\ called' = Call("get_question_priority", m, <<i, u>>, "none")
    /\ raised' = "none"
    /\ UNCHANGED <<disk, mem, live, blind, now, latest, updates, faults,
                   answered, quiz>>

GetStatistics(m, u) ==
    /\ m \in live
    /\ returned' = get_user_statistics(mem[m], u)
    /\ called' = Call("get_user_statistics", m, <<u>>, "none")
    /\ raised' = "none"
    /\ UNCHANGED <<disk, mem, live, blind, now, latest, updates, faults,
                   answered, quiz>>

GetSchedule(m, u, days) ==
    /\ m \in live
    /\ returned' = get_review_schedule(mem[m], u, days, now)
    /\ called' = Call("get_review_schedule", m, <<u, days>>, "none")
    /\ raised' = "none"
    /\ UNCHANGED <<disk, mem, live, blind, now, latest, updates, faults,
                   answered, quiz>>

(* QuizLoader.get_spaced_repetition_quiz, on the manager of the loader: the *)
(* candidates are initialised in memory, nothing is saved.                 *)
SelectDue(m, u, pool, max_questions) ==
    /\ m \in live
    /\ mem' = [mem EXCEPT ![m] =
                  IF pool = <<>> THEN @ ELSE initialize_all(@, pool, u, now)]
    /\ returned' \in get_spaced_repetition_quiz(mem[m], u, pool, max_questions,
                                                now)
    /\ called' = Call("get_spaced_repetition_quiz", m,
                      <<u, pool, max_questions>>, "none")
    /\ raised' = "none"
    /\ UNCHANGED <<disk, live, blind, now, latest, updates, faults, answered, quiz>>

SelectDifficult(m, u, pool, max_questions) ==
    /\ m \in live
    /\ returned' \in get_difficult_questions_quiz(mem[m], u, pool,
                                                  max_questions)
    /\ called' = Call("get_difficult_questions_quiz", m,
                      <<u, pool, max_questions>>, "none")
    /\ raised' = "none"
    /\ UNCHANGED <<disk, mem, live, blind, now, latest, updates, faults,
                   answered, quiz>>

SelectMixed(m, u, pool, max_questions) ==
    /\ m \in live
    /\ returned' \in get_mixed_review_quiz(mem[m], u, pool, max_questions, now)
    /\ called' = Call("get_mixed_review_quiz", m, <<u, pool, max_questions>>,
                      "none")
    /\ raised' = "none"
    /\ UNCHANGED <<disk, mem, live, blind, now, latest, updates, faults,
                   answered, quiz>>

(* ErrorAnalyzer.get_user_error_summary, on the manager of the analyzer. *)
GetErrorSummary(m, u) ==
    /\ m \in live
    /\ returned' \in get_user_error_summary(mem[m], u)
    /\ called' = Call("get_user_error_summary", m, <<u>>, "none")
    /\ raised' = "none"
    /\ UNCHANGED <<disk, mem, live, blind, now, latest, updates, faults,
                   answered, quiz>>

(* Quiz (src/Quiz.py).  start_quiz runs in the main thread, statement by   *)
(* statement; quiz.pc is the statement it is to run next.  timer_countdown *)
(* runs in a thread of its own and, its sleep over, sets time_up at any    *)
(* point of the main thread's progress.  The manager of the quiz is "m2".  *)

(* Quiz.__init__ *)
QuizInit(name, duration, use_spaced_repetition) ==
    /\ quiz.pc = "none"
    /\ quiz' = [ pc                    |-> "start_quiz",
                 user_name             |-> name,
                 score                 |-> 0,
                 quiz                  |-> <<>>,
                 duration              |-> duration,
                 time_up               |-> FALSE,
                 timer_thread          |-> "none",
                 use_spaced_repetition |-> use_spaced_repetition,
                 question_results      |-> <<>>,
                 i                     |-> 0,
                 asked                 |-> 0,
                 user_answer           |-> "unbound",
                 is_correct            |-> FALSE ]
    /\ IF use_spaced_repetition
       THEN ManagerInit("m2")
       ELSE UNCHANGED <<disk, mem, live, blind, now, called, raised, returned,
                        latest, updates, faults, answered>>

(* start_quiz, lines 50-59: the questions are taken and the timer thread   *)
(* is started when a duration is set.                                      *)
StartQuiz(questions) ==
    /\ quiz.pc = "start_quiz"
    /\ quiz' = [quiz EXCEPT !.quiz = questions,
                            !.timer_thread =
                                IF quiz.duration > 0 THEN "sleeping" ELSE @,
                            !.i = 1,
                            !.pc = "for"]
    /\ UNCHANGED <<disk, mem, live, blind, now, called, raised, returned,
                   latest, updates, faults, answered>>

(* timer_countdown, lines 26-27: the sleep ends and time_up is set. *)
timer_countdown ==
    /\ quiz.pc # "none"
    /\ quiz.timer_thread = "sleeping"
    /\ quiz' = [quiz EXCEPT !.time_up = TRUE, !.timer_thread = "finished"]
    /\ UNCHANGED <<disk, mem, live, blind, now, called, raised, returned,
                   latest, updates, faults, answered>>

(* Lines 61-64: the next question, if there is one and time is not up. *)
ForQuestion ==
    /\ quiz.pc = "for"
    /\ quiz' = [quiz EXCEPT !.pc = IF quiz.i > Len(quiz.quiz) \/ quiz.time_up
                                   THEN "end_quiz" ELSE "ask"]
    /\ UNCHANGED <<disk, mem, live, blind, now, called, raised, returned,
                   latest, updates, faults, answered>>

(* Lines 67-77: the progress line is printed and the question is asked. *)
Ask ==
    /\ quiz.pc = "ask"
    /\ quiz' = [quiz EXCEPT !.asked = @ + 1, !.pc = "while"]
    /\ UNCHANGED <<disk, mem, live, blind, now, called, raised, returned,
                   latest, updates, faults, answered>>

(* Lines 79-82: the answer loop is left when time is up. *)
WhileTrue ==
    /\ quiz.pc = "while"
    /\ quiz' = [quiz EXCEPT !.pc = IF quiz.time_up THEN "check" ELSE "input"]
    /\ UNCHANGED <<disk, mem, live, blind, now, called, raised, returned,
                   latest, updates, faults, answered>>

(* What is typed at the prompt; the correct answer of every question is 1. *)
Typed == {"1", "2", "x"}

(* Lines 84-88: int(input(...)) returns, or raises ValueError and the loop *)
(* goes round.                                                             *)
Input(typed) ==
    /\ quiz.pc = "input"
    /\ quiz' = IF typed = "x"
               THEN [quiz EXCEPT !.pc = "while"]
               ELSE [quiz EXCEPT !.user_answer = typed, !.pc = "check"]
    /\ UNCHANGED <<disk, mem, live, blind, now, called, raised, returned,
                   latest, updates, faults, answered>>

(* Lines 91-92: is_correct = False; if not self.time_up. *)
CheckTimeUp ==
    /\ quiz.pc = "check"
    /\ quiz' = [quiz EXCEPT !.is_correct = FALSE,
                            !.pc = IF quiz.time_up THEN "next" ELSE "score"]
    /\ UNCHANGED <<disk, mem, live, blind, now, called, raised, returned,
                   latest, updates, faults, answered>>

(* Lines 93-99: the answer is checked, a correct one is counted. *)
Score ==
    /\ quiz.pc = "score"
    /\ quiz' = [quiz EXCEPT !.is_correct = (quiz.user_answer = "1"),
                            !.score = IF quiz.user_answer = "1"
                                      THEN @ + 1 ELSE @,
                            !.pc = "update"]
    /\ UNCHANGED <<disk, mem, live, blind, now, called, raised, returned,
                   latest, updates, faults, answered>>

(* The response time the question measured. *)
ResponseTime == 4

(* Lines 102-108: the answer is reported to the manager of the quiz. *)
UpdateStore ==
    /\ quiz.pc = "update"
    /\ quiz' = [quiz EXCEPT !.pc = "append"]
    /\ IF quiz.use_spaced_repetition
       THEN UpdatePerformance("m2", quiz.user_name, quiz.quiz[quiz.i],
                              quiz.is_correct, ResponseTime, "saved")
       ELSE UNCHANGED <<disk, mem, live, blind, now, called, raised, returned,
                        latest, updates, faults, answered>>

(* Lines 111-119: the result of the question is recorded. *)
AppendResult ==
    /\ quiz.pc = "append"
    /\ quiz' = [quiz EXCEPT
                   !.question_results =
                       Append(@, [ question_id   |-> quiz.quiz[quiz.i],
                                   user_answer   |-> quiz.user_answer,
                                   is_correct    |-> quiz.is_correct,
                                   response_time |-> ResponseTime ]),
                   !.pc = "next"]
    /\ UNCHANGED <<disk, mem, live, blind, now, called, raised, returned,
                   latest, updates, faults, answered>>

(* Lines 121-122 and the step of the for loop. *)
NextQuestion ==
    /\ quiz.pc = "next"
    /\ quiz' = [quiz EXCEPT !.i = @ + 1, !.pc = "for"]
    /\ UNCHANGED <<disk, mem, live, blind, now, called, raised, returned,
                   latest, updates, faults, answered>>

(* end_quiz: the result of the quiz is returned. *)
end_quiz ==
    /\ quiz.pc = "end_quiz"
    /\ quiz' = [quiz EXCEPT !.pc = "returned"]
    /\ returned' = [ user_name              |-> quiz.user_name,
                     score                  |-> quiz.score,
                     total_questions        |-> Len(quiz.quiz),
                     time_up                |-> quiz.time_up,
                     question_results       |-> quiz.question_results,
                     used_spaced_repetition |-> quiz.use_spaced_repetition ]
    /\ called' = Call("start_quiz", "quiz", <<quiz.quiz>>, "none")
    /\ raised' = "none"
    /\ UNCHANGED <<disk, mem, live, blind, now, latest, updates, faults,
                   answered>>

(* The program is left alone for some days. *)
Wait(days) ==
    /\ now <= MaxNow
    /\ now' = now + timedelta(days)
    /\ UNCHANGED <<disk, mem, live, blind, called, raised, returned, latest,
                   updates, faults, answered, quiz>>

Tick ==
    /\ now < MaxNow
    /\ now' = now + 1
    /\ UNCHANGED <<disk, mem, live, blind, called, raised, returned, latest,
                   updates, faults, answered, quiz>>

NextOf(Ms, Us, Is, Js, RTs, Os, Ps, cap) ==
    \/ \E m \in Ms : Construct(m)
    \/ \E m \in Ms, u \in Us, i \in Is : Initialize(m, u, i)
    \/ \E m \in Ms, u \in Us, i \in Js, c \in BOOLEAN, rt \in RTs, o \in Os :
          updates < cap /\ Update(m, u, i, c, rt, o)
    \/ \E m \in Ms, u \in Us, pool \in Ps : GetDue(m, u, pool)
    \/ Tick

(* The candidate list handed to get_questions_due_for_review: an item may  *)
(* be listed twice.                                                        *)
Pools == {<< <<"q">>, <<"r">>, <<"q">> >>}

(* One instance whose saves succeed. *)
Next == NextOf({"m1"}, Users, Items, {<<"q">>}, ResponseTimes, {"saved"}, Pools,
               MaxUpdates)

Spec == Init /\ [][Next]_vars

(* One instance, given response times as the caller measured them: the     *)
(* difference of two clock readings, which a clock set back makes negative. *)
NextMeasured ==
    NextOf({"m1"}, Users, Items, {<<"q">>}, MeasuredTimes, {"saved"}, Pools,
           MaxSharedUpdates)

SpecMeasured == Init /\ [][NextMeasured]_vars

(* Two instances over one file, updates of both items, saves that may fail. *)
NextShared ==
    NextOf(Managers, Users, {<<"q">>}, Items, {4}, SaveOutcomes, Pools,
           MaxSharedUpdates)

SpecShared == Init /\ [][NextShared]_vars

(* One instance and one item, answered up to MaxDrillUpdates times, fast,   *)
(* hesitating or slow.                                                      *)
NextDrill ==
    NextOf({"m1"}, Users, {<<"q">>}, {<<"q">>}, DrillTimes, {"saved"}, Pools,
           MaxDrillUpdates)

SpecDrill == Init /\ [][NextDrill]_vars

(* A second user whose name begins with the first one's and a colon: a     *)
(* name is whatever was typed at the prompt.                               *)
ReviewUsers == {<<"a">>, <<"a", ":", "b">>}

ScheduleDays == {0, 1, 2}

(* One instance, read for its priorities, statistics and schedule, also    *)
(* days after the last answer.                                             *)
NextReview ==
    \/ NextOf({"m1"}, ReviewUsers, {<<"q">>}, {<<"q">>}, {4}, {"saved"}, Pools,
              MaxReviewUpdates)
    \/ \E u \in ReviewUsers, i \in Items : GetPriority("m1", u, i)
    \/ \E u \in ReviewUsers : GetStatistics("m1", u)
    \/ \E u \in ReviewUsers, days \in ScheduleDays : GetSchedule("m1", u, days)
    \/ Wait(LateDays)

SpecReview == Init /\ [][NextReview]_vars

(* The question files the loader reads: three questions, a file that lists *)
(* two questions twice each, an empty one.                                 *)
QuizPools ==
    { << <<"q">>, <<"r">>, <<"s">> >>,
      << <<"r">>, <<"r">>, <<"q">>, <<"q">> >>,
      <<>> }

MaxQuestions == {-1, 0, 3, 10}

(* One instance: answers recorded for two of the questions, the three      *)
(* selections, on the day of the answers or the day after.                 *)
NextSelect ==
    \/ \E i \in Items, c \in BOOLEAN :
          updates < MaxSelectUpdates /\ Update("m1", <<"a">>, i, c, 4, "saved")
    \/ \E pool \in QuizPools, n \in MaxQuestions :
          SelectDue("m1", <<"a">>, pool, n)
    \/ \E pool \in QuizPools, n \in MaxQuestions :
          SelectDifficult("m1", <<"a">>, pool, n)
    \/ \E pool \in QuizPools, n \in MaxQuestions :
          SelectMixed("m1", <<"a">>, pool, n)
    \/ now = 0 /\ Wait(1)

SpecSelect == Init /\ [][NextSelect]_vars

(* One instance, two users of whom one has a name that begins with the      *)
(* other's and a colon, answers to two questions, and the error summary,    *)
(* the statistics and the schedule of each user.                            *)
NextErrors ==
    \/ \E u \in ReviewUsers, i \in Items, c \in BOOLEAN :
          updates < MaxErrorUpdates /\ Update("m1", u, i, c, 4, "saved")
    \/ \E u \in ReviewUsers, i \in Items : Initialize("m1", u, i)
    \/ \E u \in ReviewUsers : GetErrorSummary("m1", u)
    \/ \E u \in ReviewUsers : GetStatistics("m1", u)
    \/ \E u \in ReviewUsers, days \in ScheduleDays : GetSchedule("m1", u, days)

SpecErrors == Init /\ [][NextErrors]_vars

(* Question files of three questions, and one that lists a question twice. *)
RankPools ==
    { << <<"q">>, <<"r">>, <<"s">> >>,
      << <<"q">>, <<"q">>, <<"r">> >> }

RankCounts == {1, 2}

(* One instance: answers recorded for two of the questions, on the day of   *)
(* the selection or the day before, and selections of fewer questions than  *)
(* the file holds.                                                          *)
NextRank ==
    \/ \E i \in Items, c \in BOOLEAN :
          updates < MaxRankUpdates /\ Update("m1", <<"a">>, i, c, 4, "saved")
    \/ \E pool \in RankPools, n \in RankCounts :
          SelectDue("m1", <<"a">>, pool, n)
    \/ \E pool \in RankPools, n \in RankCounts :
          SelectDifficult("m1", <<"a">>, pool, n)
    \/ \E pool \in RankPools, n \in RankCounts :
          SelectMixed("m1", <<"a">>, pool, n)
    \/ now = 0 /\ Wait(1)

SpecRank == Init /\ [][NextRank]_vars

DueWaits == {1, 5}

(* One instance and one user, answers to one question, and the program left *)
(* alone for a day or for five days: the first interval is one day, the     *)
(* second is six.                                                           *)
NextDue ==
    \/ NextOf({"m1"}, Users, {<<"q">>}, {<<"q">>}, {4}, {"saved"}, Pools,
              MaxDueUpdates)
    \/ \E days \in DueWaits : Wait(days)

SpecDue == Init /\ [][NextDue]_vars

(* Question ids as a caller of the manager may pass them: any string, also *)
(* one that holds a colon.                                                 *)
KeyItems == {<<"q">>, <<"b", ":", "q">>}

(* One instance, two user names and two question ids, of which the pairs   *)
(* ("a", "b:q") and ("a:b", "q") are distinct.                             *)
NextKeys ==
    NextOf({"m1"}, ReviewUsers, KeyItems, KeyItems, {4}, {"saved"}, Pools,
           MaxKeyUpdates)

SpecKeys == Init /\ [][NextKeys]_vars

(* The questions of a quiz, by their ids. *)
QuizQuestions == { << <<"q">>, <<"r">> >>, << <<"q">> >> }

Durations == {0, 60}

(* One quiz, timed or not, reporting to a manager of its own or not: the   *)
(* main thread and the timer thread, interleaved in every way.             *)
NextQuiz ==
    \/ \E duration \in Durations, use_spaced_repetition \in BOOLEAN :
          QuizInit(<<"a">>, duration, use_spaced_repetition)
    \/ \E questions \in QuizQuestions : StartQuiz(questions)
    \/ timer_countdown
    \/ ForQuestion
    \/ Ask
    \/ WhileTrue
    \/ \E typed \in Typed : Input(typed)
    \/ CheckTimeUp
    \/ Score
    \/ UpdateStore
    \/ AppendResult
    \/ NextQuestion
    \/ end_quiz

SpecQuiz == Init /\ [][NextQuiz]_vars

----------------------------------------------------------------------------
(* Properties. *)

Records(question_data) == { question_data[k] : k \in DOMAIN question_data }

AllRecords ==
    UNION { Records(mem[m]) : m \in Managers } \cup Records(disk.data)

Stored(m, u, i) == user_key(u, i) \in DOMAIN mem[m]

(* The step is a call of the method: every call sets called, and only the  *)
(* passing of time leaves it while changing the state.                     *)
CallStep(method) == called'.method = method /\ now' = now

UpdateStep == CallStep("update_question_performance")

(* The record an update starts from: the stored one, or the default one    *)
(* that the update creates first.                                          *)
Before(m, u, i) ==
    IF Stored(m, u, i) THEN mem[m][user_key(u, i)] ELSE NewRecord(now)

After(m, u, i) == mem'[m][user_key(u, i)]

(* The record that the update in progress starts from, and the one it      *)
(* leaves.                                                                 *)
Old == Before(called'.self, called'.args[2], called'.args[1])

New == After(called'.self, called'.args[2], called'.args[1])

(* C1: after every Initialize and Update, every record has                 *)
(* correct_attempts <= total_attempts and ease_factor >= 1.3.              *)
C1_CountersAndEase ==
    \A r \in AllRecords :
        /\ r.correct_attempts <= r.total_attempts
        /\ r.ease_factor >= 130

(* Two blackouts in a row: 2.5 - 0.8 - 0.8 is below 1.3 and is clamped. *)
C1_Witness ==
    /\ called.method = "update_question_performance"
    /\ \E r \in Records(mem["m1"]) :
        /\ r.total_attempts = 2
        /\ r.correct_attempts = 0
        /\ r.ease_factor = 130

(* C2: a correct update sets interval to 1 from repetition 0, to 6 from    *)
(* repetition 1, and otherwise to floor(old interval * old ease_factor),   *)
(* the ease_factor being the one held before the call; repetition grows by *)
(* one.  Two correct answers on a fresh record give repetition 1 then 2    *)
(* and interval 1 then 6.                                                  *)
C2_CorrectStep ==
    (UpdateStep /\ called'.args[3]) =>
        /\ New.repetition = Old.repetition + 1
        /\ New.interval =
             IF Old.repetition = 0 THEN 1
             ELSE IF Old.repetition = 1 THEN 6
             ELSE (Old.interval * Old.ease_factor) \div 100
        /\ Old.total_attempts = 0 => (New.repetition = 1 /\ New.interval = 1)
        /\ (Old.total_attempts = 1 /\ Old.correct_attempts = 1)
              => (New.repetition = 2 /\ New.interval = 6)

C2_CorrectInterval == [][C2_CorrectStep]_vars

(* A third correct answer, a slow one: the interval is floor(6 * 2.7) = 16 *)
(* from the ease held before the call, not floor(6 * 2.56) = 15.           *)
C2_Witness ==
    /\ called.method = "update_question_performance"
    /\ \E r \in Records(mem["m1"]) :
        /\ r.repetition = 3
        /\ r.ease_factor = 256
        /\ r.interval = 16

(* C3: an incorrect update sets repetition to 0 and interval to 1 whatever *)
(* they and ease_factor were; total_attempts grows by one and              *)
(* correct_attempts stays.                                                 *)
C3_LapseStep ==
    (UpdateStep /\ ~called'.args[3]) =>
        /\ New.repetition = 0
        /\ New.interval = 1
        /\ New.total_attempts = Old.total_attempts + 1
        /\ New.correct_attempts = Old.correct_attempts

C3_LapseResets == [][C3_LapseStep]_vars

(* A lapse after a streak of two, which had brought the interval to 6. *)
C3_Witness ==
    /\ called.method = "update_question_performance"
    /\ ~called.args[3]
    /\ \E r \in Records(mem["m1"]) :
        /\ r.total_attempts = 3
        /\ r.correct_attempts = 2
        /\ r.repetition = 0
        /\ r.interval = 1

(* C4: an update with response_time < 0 fails with InvalidInput and leaves *)
(* the store as it was: no record changed, none created.                   *)
C4_NegativeTimeStep ==
    (UpdateStep /\ called'.args[4] < 0) =>
        /\ raised' = "InvalidInput"
        /\ mem'[called'.self] = mem[called'.self]

C4_NegativeTimeRejected == [][C4_NegativeTimeStep]_vars

(* C5: when the save fails the update reports StorageError; the record in  *)
(* memory is the whole old or the whole new one, and never differs from    *)
(* the file while the call reported success.                               *)
C5_FailedSaveStep ==
    (UpdateStep /\ called'.save # "saved") =>
        /\ raised' = "StorageError"
        /\ \/ ~Stored(called'.self, called'.args[2], called'.args[1])
           \/ New \in {Old, UpdateRecord(Old, called'.args[3],
                                         called'.args[4], now)}
        /\ ~(raised' = "none" /\ mem'[called'.self] # load_data(disk'))

C5_FailedSaveReported == [][C5_FailedSaveStep]_vars

(* C6: Initialize creates the default record (ease_factor 2.5, repetition  *)
(* 0, interval 1, next_review = now, counters 0) only when the key has no  *)
(* record, and otherwise changes nothing; a second Initialize, at any      *)
(* later time, changes nothing.                                            *)
C6_InitializeStep ==
    CallStep("initialize_question") =>
        LET m == called'.self
            u == called'.args[2]
            i == called'.args[1]
        IN  /\ IF Stored(m, u, i)
               THEN mem'[m] = mem[m]
               ELSE /\ DOMAIN mem'[m] = DOMAIN mem[m] \cup {user_key(u, i)}
                    /\ \A k \in DOMAIN mem[m] : mem'[m][k] = mem[m][k]
                    /\ After(m, u, i).ease_factor = 250
                    /\ After(m, u, i).repetition = 0
                    /\ After(m, u, i).interval = 1
                    /\ fromisoformat(After(m, u, i).next_review) = now
                    /\ After(m, u, i).total_attempts = 0
                    /\ After(m, u, i).correct_attempts = 0
            /\ \A t \in now..(MaxNow + 1) :
                  initialize_question(mem'[m], i, u, t) = mem'[m]

C6_InitializeIdempotent == [][C6_InitializeStep]_vars

(* Initialize called on the one record of the store, after that record was *)
(* updated at an earlier time.                                             *)
C6_Witness ==
    /\ called.method = "initialize_question"
    /\ called.args[1] = <<"q">>
    /\ Stored("m1", <<"a">>, <<"r">>)
    /\ mem["m1"][user_key(<<"a">>, <<"q">>)].total_attempts >= 1
    /\ fromisoformat(mem["m1"][user_key(<<"a">>, <<"q">>)].created_date) < now

(* C7: once an update has completed, every instance reads the updated      *)
(* record: no instance holds a copy that differs from it (all saves having *)
(* succeeded).                                                             *)
C7_NoStaleCopy ==
    faults = 0 =>
        \A k \in DOMAIN latest : \A m \in live :
            /\ k \in DOMAIN mem[m]
            /\ mem[m][k] = latest[k].record

(* C8: with at most one writing instance per key and every save            *)
(* succeeding, the file holds the effect of every update made.             *)
C8_NoLostUpdate ==
    (/\ faults = 0
     /\ \A k \in DOMAIN latest : Cardinality(latest[k].writers) <= 1)
    => \A k \in DOMAIN latest :
           /\ disk.state = "ok"
           /\ k \in DOMAIN disk.data
           /\ disk.data[k] = latest[k].record

(* C9: loading a file that does not parse surfaces an error, and an        *)
(* instance that started empty from such a file does not overwrite it.     *)
C9_UnparseableStep ==
    /\ (CallStep("__init__") /\ disk.state = "corrupt") => raised' # "none"
    /\ (UpdateStep /\ called'.self \in blind /\ disk.state = "corrupt")
          => disk' = disk

C9_UnparseableSurfaced == [][C9_UnparseableStep]_vars

(* C10: an item is due exactly when it has no record or now >= its         *)
(* next_review, and the due list holds exactly the due candidates.         *)
C10_DueStep ==
    CallStep("get_questions_due_for_review") =>
        LET m    == called'.self
            u    == called'.args[1]
            pool == called'.args[2]
            claimed(q) ==
                \/ ~Stored(m, u, q)
                \/ now >= fromisoformat(mem[m][user_key(u, q)].next_review)
        IN  /\ \A q \in Items : IsDue(mem[m], q, u, now) <=> claimed(q)
            /\ { returned'[j] : j \in 1..Len(returned') }
                 = { pool[j] : j \in { n \in 1..Len(pool) : claimed(pool[n]) } }

C10_DueExactly == [][C10_DueStep]_vars

(* The item with a record that is not yet due is left out, the item with   *)
(* no record is kept.                                                      *)
C10_Witness ==
    /\ called.method = "get_questions_due_for_review"
    /\ Stored("m1", <<"a">>, <<"q">>)
    /\ ~Stored("m1", <<"a">>, <<"r">>)
    /\ now < fromisoformat(mem["m1"][user_key(<<"a">>, <<"q">>)].next_review)
    /\ returned = << <<"r">> >>

(* C11: the priority of an item with no record is 100, and that is the      *)
(* maximum: the priority of an item that has a record is at most 100, for   *)
(* every reachable record and every time.                                   *)
C11_PriorityStep ==
    CallStep("get_question_priority") =>
        IF Stored(called'.self, called'.args[2], called'.args[1])
        THEN RatLeq(returned', Rat(100, 1))
        ELSE returned' = Rat(100, 1)

C11_NewItemIsMaximum == [][C11_PriorityStep]_vars

(* C12: for a stored record and every time, also one before next_review,    *)
(* the priority is max(0, days_overdue) * 10 + (1 - success_rate) * 50      *)
(* + (3.0 - ease_factor) * 20 + min(max(0, days_overdue), 30), where        *)
(* days_overdue = floor(days(now - next_review)) and success_rate =         *)
(* correct_attempts / max(1, total_attempts).                               *)
C12_PriorityStep ==
    (/\ CallStep("get_question_priority")
     /\ Stored(called'.self, called'.args[2], called'.args[1]))
    => LET r      == mem[called'.self][user_key(called'.args[2],
                                                called'.args[1])]
           late   == now - fromisoformat(r.next_review)
           days   == CHOOSE d \in -(MaxNow + 40)..(MaxNow + 40) :
                        /\ d * TicksPerDay <= late
                        /\ late < (d + 1) * TicksPerDay
           over   == IF days > 0 THEN days ELSE 0
           capped == IF over < 30 THEN over ELSE 30
           tried  == IF r.total_attempts > 1 THEN r.total_attempts ELSE 1
       IN  \* everything multiplied by 100 * tried
           returned'.num * 100 * tried
             = returned'.den * ( over * 10 * 100 * tried
                                 + (tried - r.correct_attempts) * 50 * 100
                                 + (300 - r.ease_factor) * 20 * tried
                                 + capped * 100 * tried )

C12_PriorityFormula == [][C12_PriorityStep]_vars

(* C13: an update changes ease_factor by +0.10 when correct within 5 s, by  *)
(* 0 when correct within 10 s, by -0.14 when correct and slower, and by     *)
(* -0.32, -0.54 or -0.80 when incorrect with a success rate, counted after  *)
(* the update, above 0.7, above 0.3, or not; the result is at least 1.3 and *)
(* has no upper limit.  A fast correct answer raises ease_factor, an        *)
(* incorrect one lowers it unless it is 1.3 already.                        *)
C13_EaseStep ==
    UpdateStep =>
        LET c     == called'.args[3]
            rt    == called'.args[4]
            delta == IF c
                     THEN IF rt <= 5 THEN 10 ELSE IF rt <= 10 THEN 0 ELSE -14
                     ELSE IF 10 * New.correct_attempts > 7 * New.total_attempts
                          THEN -32
                          ELSE IF 10 * New.correct_attempts
                                    > 3 * New.total_attempts
                               THEN -54
                               ELSE -80
        IN  /\ New.ease_factor =
                  IF Old.ease_factor + delta < 130 THEN 130
                  ELSE Old.ease_factor + delta
            /\ (c /\ rt <= 5) => New.ease_factor > Old.ease_factor
            /\ ~c => (New.ease_factor < Old.ease_factor \/ Old.ease_factor = 130)

C13_EaseDeltas == [][C13_EaseStep]_vars

(* A lapse after three fast correct answers: the rate is 3/4, above 0.7,    *)
(* and 2.8 falls by 0.32.                                                   *)
C13_Witness ==
    /\ called.method = "update_question_performance"
    /\ ~called.args[3]
    /\ \E r \in Records(mem["m1"]) :
        /\ r.total_attempts = 4
        /\ r.correct_attempts = 3
        /\ r.ease_factor = 248

(* C14: after n >= 1 updates of a record with response times t1..tn,       *)
(* avg_response_time is (t1 + ... + tn) / n and last_response_time is tn.   *)
C14_MeanStep ==
    UpdateStep =>
        LET told == answered'[user_key(called'.args[2], called'.args[1])]
        IN  /\ New.total_attempts = told.n
            /\ New.avg_response_time.num * told.n
                  = told.time * New.avg_response_time.den
            /\ New.last_response_time = called'.args[4]

C14_RunningMean == [][C14_MeanStep]_vars

(* Times 4, 6 (in either order) and then 20: the mean is exactly 10. *)
C14_Witness ==
    /\ called.method = "update_question_performance"
    /\ \E k \in DOMAIN mem["m1"] :
        /\ Reported(k).n = 3
        /\ Reported(k).time = 30
        /\ mem["m1"][k].total_attempts = 3
        /\ mem["m1"][k].last_response_time = 20
        /\ mem["m1"][k].avg_response_time = [num |-> 10, den |-> 1]

NoDuplicate(ids) ==
    \A j, n \in 1..Len(ids) : ids[j] = ids[n] => j = n

(* C15: for every pool, also one that lists an id more than once, every     *)
(* store and every maxCount > 0, the due-review selection returns no id     *)
(* twice and min(maxCount, number of distinct candidates) items; with       *)
(* maxCount 10 and 3 candidates it returns those 3.                         *)
C15_DueReviewStep ==
    (CallStep("get_spaced_repetition_quiz") /\ called'.args[3] > 0) =>
        LET pool == called'.args[2]
            candidates == { pool[j] : j \in 1..Len(pool) }
        IN  /\ NoDuplicate(returned')
            /\ Len(returned') =
                  IF called'.args[3] < Cardinality(candidates)
                  THEN called'.args[3] ELSE Cardinality(candidates)
            /\ (called'.args[3] = 10 /\ Cardinality(candidates) = 3)
                  => { returned'[j] : j \in 1..Len(returned') } = candidates

C15_DueReviewUnique == [][C15_DueReviewStep]_vars

(* C16: for every pool, every store and every maxCount > 0, the mixed       *)
(* selection returns at most maxCount items and no id twice.                *)
C16_MixedStep ==
    (CallStep("get_mixed_review_quiz") /\ called'.args[3] > 0) =>
        /\ Len(returned') <= called'.args[3]
        /\ NoDuplicate(returned')

C16_MixedBounded == [][C16_MixedStep]_vars

(* C17: each of the three selections returns the empty list when the pool   *)
(* is empty and whenever maxCount <= 0, whatever the pool and the store     *)
(* hold.                                                                    *)
C17_EmptyStep ==
    (/\ \/ CallStep("get_spaced_repetition_quiz")
        \/ CallStep("get_difficult_questions_quiz")
        \/ CallStep("get_mixed_review_quiz")
     /\ (called'.args[2] = <<>> \/ called'.args[3] <= 0))
    => returned' = <<>>

C17_EmptySelection == [][C17_EmptyStep]_vars

(* C18: the schedule has one bucket for every calendar date of the window   *)
(* [now, now + horizon_days], empty or not, and every record of the user    *)
(* whose next_review lies in the window is listed in the bucket of the date *)
(* of its next_review, the last date of the window included.                *)
C18_ScheduleStep ==
    CallStep("get_review_schedule") =>
        LET m    == called'.self
            u    == called'.args[1]
            last == now + timedelta(called'.args[2])
        IN  /\ DOMAIN returned' = { isoformat(t).date : t \in now..last }
            /\ \A i \in Items :
                  (/\ Stored(m, u, i)
                   /\ now <= fromisoformat(mem[m][user_key(u, i)].next_review)
                   /\ fromisoformat(mem[m][user_key(u, i)].next_review) <= last)
                  => /\ mem[m][user_key(u, i)].next_review.date
                          \in DOMAIN returned'
                     /\ i \in returned'[mem[m][user_key(u, i)].next_review.date]

C18_ScheduleComplete == [][C18_ScheduleStep]_vars

(* C19: the statistics of a user report as total_reviews the number of      *)
(* updates made for that user, as mastered, learning and difficult the      *)
(* numbers of the user's records with repetition >= 3 and ease_factor >=    *)
(* 2.5, with 1 <= repetition < 3, and with ease_factor < 2.0; all are 0 for *)
(* a user without records.                                                  *)
C19_StatisticsStep ==
    CallStep("get_user_statistics") =>
        LET m     == called'.self
            u     == called'.args[1]
            own   == { i \in Items : Stored(m, u, i) }
            rec   == [i \in own |-> mem[m][user_key(u, i)]]
            told  == [i \in Items |-> Reported(user_key(u, i)).n]
        IN  /\ returned'.total_reviews = Sum(told, Items)
            /\ returned'.questions_mastered =
                  Cardinality({ i \in own : /\ rec[i].repetition >= 3
                                            /\ rec[i].ease_factor >= 250 })
            /\ returned'.questions_learning =
                  Cardinality({ i \in own : /\ rec[i].repetition >= 1
                                            /\ rec[i].repetition < 3 })
            /\ returned'.questions_difficult =
                  Cardinality({ i \in own : rec[i].ease_factor < 200 })
            /\ own = {} =>
                  /\ returned'.total_questions = 0
                  /\ returned'.total_reviews = 0
                  /\ returned'.questions_mastered = 0
                  /\ returned'.questions_learning = 0
                  /\ returned'.questions_difficult = 0
                  /\ returned'.average_ease = 0

C19_StatisticsCounts == [][C19_StatisticsStep]_vars

(* C20: no operation deletes a record, and none but an update changes a     *)
(* field of an existing record; created_date never changes, not even by an  *)
(* update.  Stated of the records an instance holds, from one call on that  *)
(* instance to the next, and of the records the file holds, while every     *)
(* save succeeds.                                                           *)
C20_FrameStep ==
    LET kept(before, after) ==
            \A k \in DOMAIN before :
                /\ k \in DOMAIN after
                /\ after[k].created_date = before[k].created_date
                /\ after[k] # before[k] =>
                      /\ UpdateStep
                      /\ k = user_key(called'.args[2], called'.args[1])
    IN  faults' = 0 =>
            /\ \A m \in live :
                  (CallStep("__init__") /\ called'.self = m)
                  \/ kept(mem[m], mem'[m])
            /\ kept(disk.data, disk'.data)

C20_RecordsKept == [][C20_FrameStep]_vars

(* C21: the error summary of a user lists as most difficult questions only  *)
(* records of that user with total_attempts >= 2 and success_rate < 0.7,    *)
(* in the order of non-increasing difficulty_score, at most 10 of them, no  *)
(* qualifying record that is left out having a higher score than a listed   *)
(* one; its total_errors is the number of incorrect updates made for the    *)
(* user.                                                                    *)
C21_SummaryStep ==
    CallStep("get_user_error_summary") =>
        LET m      == called'.self
            u      == called'.args[1]
            listed == returned'.most_difficult_questions
            wrong  == [i \in Items |-> Reported(user_key(u, i)).wrong]
            qualifies(i) ==
                /\ Stored(m, u, i)
                /\ mem[m][user_key(u, i)].total_attempts >= 2
                /\ 10 * mem[m][user_key(u, i)].correct_attempts
                     < 7 * mem[m][user_key(u, i)].total_attempts
            score(i) == difficulty_score(mem[m][user_key(u, i)])
            ids == { listed[j].question_id : j \in 1..Len(listed) }
        IN  /\ \A j \in 1..Len(listed) :
                  /\ listed[j].question_id \in Items
                  /\ qualifies(listed[j].question_id)
            /\ \A j \in 1..(Len(listed) - 1) :
                  listed[j].difficulty_score >= listed[j + 1].difficulty_score
            /\ Len(listed) <= 10
            /\ \A i \in Items : \A j \in 1..Len(listed) :
                  (qualifies(i) /\ i \notin ids /\ listed[j].question_id \in Items
                     /\ qualifies(listed[j].question_id))
                  => RatLeq(score(i), score(listed[j].question_id))
            /\ returned'.total_errors = Sum(wrong, Items)

C21_ErrorSummary == [][C21_SummaryStep]_vars

(* C22: in the due-review selection with maxCount > 0, when at least         *)
(* maxCount candidates are due the result holds only due candidates and no  *)
(* due candidate that is left out has a strictly higher priority than one   *)
(* that is returned; a candidate that is not due is returned only when      *)
(* every due candidate is returned.  Due and priority are those of the      *)
(* store after the candidates were initialised.                             *)
C22_DueRankStep ==
    (/\ CallStep("get_spaced_repetition_quiz")
     /\ called'.args[3] > 0
     /\ called'.args[2] # <<>>)
    => LET m    == called'.self
           u    == called'.args[1]
           due  == { i \in Range(called'.args[2]) : IsDue(mem'[m], i, u, now) }
           got  == Range(returned')
           priority(i) == get_question_priority(mem'[m], i, u, now)
       IN  /\ Cardinality(due) >= called'.args[3] =>
                 /\ got \subseteq due
                 /\ \A x \in due \ got : \A y \in got :
                       RatLeq(priority(x), priority(y))
           /\ (got \ due # {}) => due \subseteq got

C22_DueRanked == [][C22_DueRankStep]_vars

(* Three due candidates and room for one: the one answered wrongly the day  *)
(* before, second in the file, is returned.                                 *)
C22_Witness ==
    /\ called.method = "get_spaced_repetition_quiz"
    /\ called.args = << <<"a">>, << <<"q">>, <<"r">>, <<"s">> >>, 1 >>
    /\ returned = << <<"r">> >>
    /\ \A i \in {<<"q">>, <<"r">>, <<"s">>} : IsDue(mem["m1"], i, <<"a">>, now)
    /\ mem["m1"][user_key(<<"a">>, <<"r">>)].total_attempts = 1
    /\ mem["m1"][user_key(<<"a">>, <<"r">>)].correct_attempts = 0
    /\ mem["m1"][user_key(<<"a">>, <<"q">>)].total_attempts = 0

(* C23: when due candidates have equal priority and only some of them fit,  *)
(* the ranking is stable in the order of the pool: of two tied due          *)
(* candidates the later one is selected only if the earlier one is, in the  *)
(* due-review selection; and the mixed selection returns the first          *)
(* dueQuota due candidates of the ranking by priority, ties in the order of *)
(* the pool.                                                                *)
C23_StableStep ==
    LET m    == called'.self
        u    == called'.args[1]
        pool == called'.args[2]
        due  == { i \in Range(pool) : IsDue(mem'[m], i, u, now) }
        got  == Range(returned')
        priority(i) == get_question_priority(mem'[m], i, u, now)
        first(i) == CHOOSE j \in 1..Len(pool) :
                       pool[j] = i /\ \A n \in 1..(j - 1) : pool[n] # i
        ahead(i) == { x \in due :
                        \/ ~RatLeq(priority(x), priority(i))
                        \/ priority(x) = priority(i) /\ first(x) < first(i) }
    IN  /\ (/\ CallStep("get_spaced_repetition_quiz")
            /\ Cardinality(due) > called'.args[3]
            /\ called'.args[3] > 0)
           => \A x, y \in due :
                 (/\ priority(x) = priority(y)
                  /\ first(x) < first(y)
                  /\ y \in got) => x \in got
        /\ (/\ CallStep("get_mixed_review_quiz")
            /\ called'.args[3] > 0)
           => \A x \in due :
                 Cardinality(ahead(x)) < (6 * called'.args[3]) \div 10
                   => x \in got

C23_StableTies == [][C23_StableStep]_vars

(* C24: in the difficulty-focused selection with maxCount > 0, only          *)
(* candidates that have a record with total_attempts > 0 are ranked: when   *)
(* at least maxCount of them exist the result has maxCount entries, each    *)
(* one of them, and none that is left out has a strictly higher difficulty  *)
(* (1 - success_rate) * 100 + (3.0 - ease_factor) * 20 than one returned;   *)
(* a candidate never attempted is returned only when fewer than maxCount    *)
(* attempted candidates exist.                                              *)
C24_DifficultStep ==
    (/\ CallStep("get_difficult_questions_quiz")
     /\ called'.args[3] > 0
     /\ called'.args[2] # <<>>)
    => LET m   == called'.self
           u   == called'.args[1]
           rec(i) == mem[m][user_key(u, i)]
           attempted == { i \in Range(called'.args[2]) :
                            Stored(m, u, i) /\ rec(i).total_attempts > 0 }
           got == Range(returned')
           \* the difficulty, times 100 * total_attempts
           scaled(i) == (rec(i).total_attempts - rec(i).correct_attempts) * 10000
                          + (300 - rec(i).ease_factor) * 20 * rec(i).total_attempts
       IN  /\ Cardinality(attempted) >= called'.args[3] =>
                 /\ Len(returned') = called'.args[3]
                 /\ got \subseteq attempted
                 /\ \A x \in attempted \ got : \A y \in got :
                       scaled(x) * rec(y).total_attempts
                         <= scaled(y) * rec(x).total_attempts
           /\ (got \ attempted # {}) =>
                 Cardinality(attempted) < called'.args[3]

C25_MixedStep ==
    (/\ CallStep("get_mixed_review_quiz")
     /\ called'.args[3] > 0
     /\ called'.args[2] # <<>>)
    => LET m    == called'.self
           u    == called'.args[1]
           pool == called'.args[2]
           maxCount == called'.args[3]
           dueQuota == CHOOSE k \in 0..maxCount :
                          10 * k <= 6 * maxCount /\ 6 * maxCount < 10 * (k + 1)
           due  == { i \in Range(pool) : IsDue(mem[m], i, u, now) }
           got  == Range(returned')
           priority(i) == get_question_priority(mem[m], i, u, now)
           atLeast(a, b) == IF a <= b THEN a ELSE b
       IN  /\ sr_count(maxCount) = dueQuota
           /\ \E top \in SUBSET (due \cap got) :
                 /\ Cardinality(top) = atLeast(dueQuota, Cardinality(due))
                 /\ \A x \in due \ top : \A y \in top :
                       RatLeq(priority(x), priority(y))
           /\ \A built \in mixed_selection(mem[m], u, pool, maxCount, now) :
                 Len(built) <= maxCount
           /\ Len(returned') = atLeast(maxCount, Cardinality(Range(pool)))

C25_MixedQuota == [][C25_MixedStep]_vars

(* C26: after an update of (user, item) at time t that leaves the interval  *)
(* d, the item is not due at any time from t up to, not including, t + d    *)
(* days, and is due from t + d days on, until the next update of the        *)
(* record; d is at least 1, so the item is not due at the instant of the    *)
(* answer.  Stated of the instance that made the update.                    *)
C26_DueWindow ==
    \A u \in Users : \A i \in Items :
        user_key(u, i) \in DOMAIN latest =>
            LET t == latest[user_key(u, i)].at
                d == latest[user_key(u, i)].record.interval
            IN  /\ d >= 1
                /\ \A m \in latest[user_key(u, i)].writers :
                      IsDue(mem[m], i, u, now) <=> now >= t + d * TicksPerDay
                /\ now = t =>
                      \A m \in latest[user_key(u, i)].writers :
                          ~IsDue(mem[m], i, u, now)

(* A second correct answer left the interval 6; five days after it the item *)
(* is not yet due.                                                          *)
C26_Witness ==
    /\ user_key(<<"a">>, <<"q">>) \in DOMAIN latest
    /\ latest[user_key(<<"a">>, <<"q">>)].record.interval = 6
    /\ now = latest[user_key(<<"a">>, <<"q">>)].at + 5 * TicksPerDay
    /\ ~IsDue(mem["m1"], <<"q">>, <<"a">>, now)

(* C27: in every record reachable by Initialize and Update, interval >= 1   *)
(* and repetition is the number of consecutive correct updates since the    *)
(* last incorrect one (or since the record was created); within an unbroken *)
(* streak of correct answers the interval never decreases from one update   *)
(* to the next.                                                             *)
C27_StreakStep ==
    /\ \A m \in live' : \A k \in DOMAIN mem'[m] :
          /\ mem'[m][k].interval >= 1
          /\ mem'[m][k].repetition =
                IF k \in DOMAIN answered' THEN answered'[k].streak ELSE 0
    /\ (UpdateStep /\ called'.args[3]) => New.interval >= Old.interval

C27_StreakAndInterval == [][C27_StreakStep]_vars

(* A lapse and then three correct answers: repetition 3, the intervals of   *)
(* the streak 1, 6 and floor(6 * 1.9) = 11.                                 *)
C27_Witness ==
    /\ called.method = "update_question_performance"
    /\ \E k \in DOMAIN mem["m1"] :
        /\ Reported(k).n = 4
        /\ Reported(k).wrong = 1
        /\ Reported(k).streak = 3
        /\ mem["m1"][k].repetition = 3
        /\ mem["m1"][k].interval = 11

(* C28: an update of (user, item) changes only the record of that pair, for *)
(* arbitrary user and item strings: the record of every other pair (user',  *)
(* item'), user' # user or item' # item, is unchanged, and none is created  *)
(* for it; two distinct pairs never share one stored record.                *)
C28_PairStep ==
    UpdateStep =>
        \A u \in ReviewUsers : \A i \in KeyItems :
            (u # called'.args[2] \/ i # called'.args[1]) =>
                /\ Stored(called'.self, u, i) =>
                      After(called'.self, u, i)
                        = mem[called'.self][user_key(u, i)]
                /\ ~Stored(called'.self, u, i) =>
                      user_key(u, i) \notin DOMAIN mem'[called'.self]

C28_OneRecordPerPair == [][C28_PairStep]_vars

(* C29: what Statistics(user), Schedule(user, ...) and ErrorSummary(user)    *)
(* return depends only on the records created for exactly that user: an     *)
(* Initialize or Update made for a different user name, also one that       *)
(* begins with user and a colon, changes none of the three results.         *)
C29_IsolationStep ==
    (CallStep("initialize_question") \/ UpdateStep) =>
        \A u \in ReviewUsers :
            u # called'.args[2] =>
                /\ get_user_statistics(mem'[called'.self], u)
                     = get_user_statistics(mem[called'.self], u)
                /\ \A days \in ScheduleDays :
                      get_review_schedule(mem'[called'.self], u, days, now)
                        = get_review_schedule(mem[called'.self], u, days, now)
                /\ get_user_error_summary(mem'[called'.self], u)
                     = get_user_error_summary(mem[called'.self], u)

C29_UserIsolation == [][C29_IsolationStep]_vars

(* C30: in a timed quiz (duration > 0), once the timer thread has set       *)
(* time_up the quiz records nothing further: score, question_results and    *)
(* the review store do not change afterwards, no further question is asked  *)
(* and time_up does not return to false; and under every interleaving of    *)
(* the timer thread with the question loop, between two questions and when  *)
(* the quiz returns, score is the number of recorded results marked         *)
(* correct.                                                                 *)
C30_TimeUpStep ==
    (quiz.pc # "none" /\ quiz.duration > 0) =>
        /\ quiz.time_up =>
              /\ quiz'.score = quiz.score
              /\ quiz'.question_results = quiz.question_results
              /\ mem' = mem
              /\ disk' = disk
              /\ quiz'.asked = quiz.asked
              /\ quiz'.time_up
        /\ quiz'.pc \in {"for", "returned"} =>
              quiz'.score =
                 Cardinality({ j \in 1..Len(quiz'.question_results) :
                                 quiz'.question_results[j].is_correct })

C30_TimeUpStopsQuiz == [][C30_TimeUpStep]_vars

====
